---- MODULE Spec2Model ----
(***************************************************************************)
(* Model of the stock-tech-patterns message pipeline:                      *)
(*   app/queue_handler.py  (RabbitMQ and SQS consumers, connect-with-retry)*)
(*   app/processor.py      (analyze_patterns)                              *)
(*   app/output_handler.py (send_to_output)                                *)
(* Broker, network and sink outcomes are environment inputs drawn with \E. *)
(***************************************************************************)
EXTENDS Integers, Sequences, FiniteSets, TLC

\* ---------------------------------------------------------------- bounds
MaxDeliveries == 2      \* messages handled per run (deliveries / SQS messages)
MaxAttempts == 7        \* cap on connection attempts explored by the model
MaxBatch == 2           \* messages per SQS receive_message response
MaxPolls == 2           \* receive_message calls per run
MaxLen == 7             \* length of the generated price series
MaxMixedLen == 3        \* length of the series with missing / bad closes

\* ---------------------------------------------------------------- values
\* a float of the close column: a number or NaN
Num(v) == [ck |-> "num", close |-> v]
NaN == [ck |-> "nan", close |-> 0]
\* an element of the request's `data` list: close present and numeric,
\* close key missing, or close present but not coercible to float
Obs(v) == [ck |-> "num", close |-> v]
ObsMissing == [ck |-> "missing", close |-> 0]
ObsBad == [ck |-> "bad", close |-> 0]

RECURSIVE ObsSeq(_)
ObsSeq(s) == IF s = <<>> THEN <<>> ELSE <<Obs(Head(s))>> \o ObsSeq(Tail(s))

\* message bodies as they arrive from the broker
\*   kind: "badjson" (text that is not JSON), "badbytes" (bytes that are not
\*   UTF-8/16/32), "array" / "null" (JSON, not an object), "object"
Body(kind, hasSymbol, hasData, data) ==
    [kind |-> kind, hasSymbol |-> hasSymbol, hasData |-> hasData, data |-> data]

Bodies ==
    { Body("badjson", FALSE, FALSE, <<>>),
      Body("badbytes", FALSE, FALSE, <<>>),
      Body("array", FALSE, FALSE, <<>>),
      Body("object", FALSE, FALSE, <<>>),
      Body("object", TRUE, TRUE, <<>>),
      Body("object", TRUE, TRUE, ObsSeq(<<1, 3, 1, 3, 1>>)) }

\* where send_to_output fails, if anywhere
SinkSteps == <<"render", "log", "print", "publish">>
SinkFailures == {"none", "render", "log", "print", "publish"}

\* ---------------------------------------------------------------- floats
Less(a, b) == a.ck = "num" /\ b.ck = "num" /\ a.close < b.close
Eq(a, b) == a.ck = "num" /\ b.ck = "num" /\ a.close = b.close
Neg(a) == IF a.ck = "num" THEN Num(0 - a.close) ELSE a
Abs(n) == IF n < 0 THEN 0 - n ELSE n

RECURSIVE NegSeq(_)
NegSeq(x) == IF x = <<>> THEN <<>> ELSE <<Neg(Head(x))>> \o NegSeq(Tail(x))

\* 0-based indexing as in the numpy arrays
At(x, i) == x[i + 1]

\* ---------------------------------------------------------------- find_peaks
\* scipy.signal.find_peaks(x) with no conditions: the local maxima of x,
\* a flat top being reported once at the (floor) middle of the plateau
RECURSIVE PlateauEnd(_, _, _)
PlateauEnd(x, i, ia) ==
    IF ia < Len(x) - 1 /\ Eq(At(x, ia), At(x, i))
    THEN PlateauEnd(x, i, ia + 1)
    ELSE ia

RECURSIVE LocalMaxima(_, _)
LocalMaxima(x, i) ==
    IF ~(i < Len(x) - 1) THEN <<>>
    ELSE IF Less(At(x, i - 1), At(x, i))
         THEN LET ia == PlateauEnd(x, i, i + 1)
              IN IF Less(At(x, ia), At(x, i))
                 THEN <<(i + ia - 1) \div 2>> \o LocalMaxima(x, ia + 1)
                 ELSE LocalMaxima(x, i + 1)
         ELSE LocalMaxima(x, i + 1)

\* a scan that accepts only single-sample maxima
RECURSIVE StrictMaxima(_, _)
StrictMaxima(x, i) ==
    IF ~(i < Len(x) - 1) THEN <<>>
    ELSE IF Less(At(x, i - 1), At(x, i)) /\ Less(At(x, i + 1), At(x, i))
         THEN <<i>> \o StrictMaxima(x, i + 1)
         ELSE StrictMaxima(x, i + 1)

find_peaks_Strict(x) == StrictMaxima(x, 1)

find_peaks(x) == LocalMaxima(x, 1)

\* ---------------------------------------------------------------- patterns
\* the same check with a zero reference treated like a negative one
RelClose_NoZeroCase(a, r) ==
    IF r > 0 THEN 50 * Abs(a - r) < r ELSE TRUE

\* peak_diff / reference < 0.02 in IEEE doubles: a zero reference gives
\* inf or nan (no match, no exception), a negative one a quotient <= 0
RelClose(a, r) ==
    LET diff == Abs(a - r)
    IN IF r > 0 THEN 50 * diff < r
       ELSE IF r < 0 THEN TRUE
       ELSE FALSE

Last(s, k) == s[Len(s) - k]      \* s[-1-k]

ValuesAt(x, idx) == [j \in 1..Len(idx) |-> At(x, idx[j]).close]

DoubleTop(x, peaks) ==
    /\ Len(peaks) >= 2
    /\ LET pv == ValuesAt(x, peaks) IN RelClose(Last(pv, 0), Last(pv, 1))

DoubleBottom(x, valleys) ==
    /\ Len(valleys) >= 2
    /\ LET vv == ValuesAt(x, valleys) IN RelClose(Last(vv, 0), Last(vv, 1))

\* a stricter variant that also wants shoulders of equal height
HeadAndShoulders_Symmetric(x, peaks, valleys) ==
    /\ Len(peaks) >= 3
    /\ Len(valleys) >= 2
    /\ LET pv == ValuesAt(x, peaks)
           vv == ValuesAt(x, valleys)
       IN /\ Last(pv, 1) > Last(pv, 2) /\ Last(pv, 1) > Last(pv, 0)
          /\ Last(vv, 1) < Last(pv, 1) /\ Last(vv, 0) < Last(pv, 1)
          /\ Last(pv, 2) = Last(pv, 0)

HeadAndShoulders(x, peaks, valleys) ==
    /\ Len(peaks) >= 3
    /\ Len(valleys) >= 2
    /\ LET pv == ValuesAt(x, peaks)
           vv == ValuesAt(x, valleys)
           p0 == Last(pv, 2)
           p1 == Last(pv, 1)
           p2 == Last(pv, 0)
           v0 == Last(vv, 1)
           v1 == Last(vv, 0)
       IN p1 > p0 /\ p1 > p2 /\ v0 < p1 /\ v1 < p1

\* the pattern list without the `or ["No recognizable patterns"]` default
DetectPatterns_NoSentinel(x, peaks, valleys) ==
    (IF DoubleTop(x, peaks) THEN <<"Double Top">> ELSE <<>>)
    \o (IF DoubleBottom(x, valleys) THEN <<"Double Bottom">> ELSE <<>>)
    \o (IF HeadAndShoulders(x, peaks, valleys) THEN <<"Head and Shoulders">> ELSE <<>>)

DetectPatterns(x, peaks, valleys) ==
    LET found == (IF DoubleTop(x, peaks) THEN <<"Double Top">> ELSE <<>>)
                 \o (IF DoubleBottom(x, valleys) THEN <<"Double Bottom">> ELSE <<>>)
                 \o (IF HeadAndShoulders(x, peaks, valleys)
                     THEN <<"Head and Shoulders">> ELSE <<>>)
    IN IF found = <<>> THEN <<"No recognizable patterns">> ELSE found

\* ---------------------------------------------------------------- results
Result(symbol, shape, patterns, peaks, valleys, error) ==
    [symbol |-> symbol, analysis_type |-> "chart_patterns", shape |-> shape,
     patterns |-> patterns, peaks |-> peaks, valleys |-> valleys, error |-> error]

\* no value: the call raised instead of returning
NoResult ==
    [symbol |-> "", analysis_type |-> "", shape |-> "none",
     patterns |-> <<>>, peaks |-> <<>>, valleys |-> <<>>, error |-> ""]

Failure(symbol, error) == Result(symbol, "failure", <<>>, <<>>, <<>>, error)

\* data.get("symbol", "UNKNOWN")
SymbolOf(msg) == IF msg.hasSymbol THEN "AAPL" ELSE "UNKNOWN"

\* df["close"].astype(float).to_numpy(): a missing close becomes NaN
ClosePrices(data) ==
    [j \in 1..Len(data) |-> IF data[j].ck = "num" THEN Num(data[j].close) ELSE NaN]

\* ---------------------------------------------------------------- sink
StepIndex(f) == CHOOSE j \in 1..Len(SinkSteps) : SinkSteps[j] = f

\* the steps of send_to_output that are started when step `fail` raises
Attempted(fail) ==
    IF fail = "none" THEN SinkSteps ELSE SubSeq(SinkSteps, 1, StepIndex(fail))

\* send_to_output without its except clause: a failing step propagates
send_to_output_Propagates(result, fail) ==
    [attempted |-> Attempted(fail), raised |-> fail # "none"]

\* send_to_output: one try block around render, log, print, publish;
\* any Exception is logged and swallowed
send_to_output(result, fail) ==
    [attempted |-> Attempted(fail), raised |-> FALSE]

\* ---------------------------------------------------------------- analysis
\* the first failure inside the try block of analyze_patterns, "" if none
ValidationError(msg) ==
    IF ~msg.hasData \/ msg.data = <<>> THEN "Missing 'data' field."
    ELSE IF \A j \in 1..Len(msg.data) : msg.data[j].ck = "missing"
         THEN "Data must contain non-empty 'close' prices."
    ELSE IF \E j \in 1..Len(msg.data) : msg.data[j].ck = "bad"
         THEN "could not convert string to float"
    ELSE ""

Analysis(msg) ==
    LET x == ClosePrices(msg.data)
        peaks == find_peaks(x)
        valleys == find_peaks(NegSeq(x))
    IN Result(SymbolOf(msg), "success", DetectPatterns(x, peaks, valleys),
              peaks, valleys, "")

\* analyze_patterns(data) with the sink failing at step `fail`:
\*   raised   an exception left the function
\*   result   the returned value
\*   sink     the sink steps that were started (<<>>: send_to_output not called)
\*   called   send_to_output was called
analyze_patterns(msg, fail) ==
    IF msg.kind # "object"
    THEN \* data.get raises AttributeError; the handler's own data.get raises again
         [raised |-> TRUE, result |-> NoResult, sink |-> <<>>, called |-> FALSE]
    ELSE IF ValidationError(msg) # ""
    THEN [raised |-> FALSE, result |-> Failure(SymbolOf(msg), ValidationError(msg)),
          sink |-> <<>>, called |-> FALSE]
    ELSE LET r == Analysis(msg)
             s == send_to_output(r, fail)
         IN IF s.raised
            THEN [raised |-> FALSE, result |-> Failure(SymbolOf(msg), "send_to_output"),
                  sink |-> s.attempted, called |-> TRUE]
            ELSE [raised |-> FALSE, result |-> r, sink |-> s.attempted, called |-> TRUE]

\* json.loads(body): "ok", "JSONDecodeError", or "UnicodeDecodeError"
\* (a ValueError that is not a JSONDecodeError)
json_loads(body) ==
    IF body.kind = "badjson" THEN "JSONDecodeError"
    ELSE IF body.kind = "badbytes" THEN "UnicodeDecodeError"
    ELSE "ok"

\* inputs the handler consults: the sink outcome matters only when the sink
\* is called, the ack/delete outcome only when that call is made
ReachesSink(body) == json_loads(body) = "ok" /\ analyze_patterns(body, "none").called
ReachesAck(body) == json_loads(body) = "ok" /\ ~analyze_patterns(body, "none").raised
SinkInputs(body) == IF ReachesSink(body) THEN SinkFailures ELSE {"none"}
AckInputs(body) == IF ReachesAck(body) THEN BOOLEAN ELSE {FALSE}

\* ---------------------------------------------------------------- events
Ev(op, tag, arg) == [op |-> op, tag |-> tag, arg |-> arg]

SinkEvents(tag, a, fail) ==
    IF ~a.called THEN <<>>
    ELSE <<Ev("send_to_output", tag, a.result.shape)>>
         \o [j \in 1..Len(a.sink) |->
                Ev(a.sink[j], tag, IF a.sink[j] = fail THEN "raise" ELSE "ok")]

\* a callback that acknowledges on receipt, before processing
callback_AckFirst(tag, body, fail, ackRaises) ==
    IF json_loads(body) = "JSONDecodeError"
    THEN <<Ev("basic_nack", tag, "requeue=False")>>
    ELSE IF json_loads(body) # "ok"
    THEN <<Ev("basic_nack", tag, "requeue=True")>>
    ELSE LET a == analyze_patterns(body, fail)
         IN <<Ev("basic_ack", tag, IF ackRaises THEN "raise" ELSE "ok")>>
            \o (IF a.raised THEN <<>> ELSE SinkEvents(tag, a, fail))
            \o (IF ackRaises \/ a.raised
                THEN <<Ev("basic_nack", tag, "requeue=True")>> ELSE <<>>)

\* a callback without the `except Exception` branch: only JSONDecodeError
\* is answered, any other exception leaves the callback unacknowledged
callback_Unacked(tag, body, fail, ackRaises) ==
    IF json_loads(body) = "JSONDecodeError"
    THEN <<Ev("basic_nack", tag, "requeue=False")>>
    ELSE IF json_loads(body) # "ok"
    THEN <<>>
    ELSE LET a == analyze_patterns(body, fail)
         IN IF a.raised
            THEN <<>>
            ELSE SinkEvents(tag, a, fail)
                 \o <<Ev("basic_ack", tag, IF ackRaises THEN "raise" ELSE "ok")>>

\* _consume_rabbitmq.callback: the calls it makes, in order
callback(tag, body, fail, ackRaises) ==
    IF json_loads(body) = "JSONDecodeError"
    THEN <<Ev("basic_nack", tag, "requeue=False")>>
    ELSE IF json_loads(body) # "ok"
    THEN <<Ev("basic_nack", tag, "requeue=True")>>
    ELSE LET a == analyze_patterns(body, fail)
         IN IF a.raised
            THEN <<Ev("basic_nack", tag, "requeue=True")>>
            ELSE SinkEvents(tag, a, fail)
                 \o <<Ev("basic_ack", tag, IF ackRaises THEN "raise" ELSE "ok")>>
                 \o (IF ackRaises THEN <<Ev("basic_nack", tag, "requeue=True")>> ELSE <<>>)

\* one iteration of the for loop of _consume_sqs
sqs_message(tag, body, fail, deleteRaises) ==
    IF json_loads(body) # "ok" THEN <<>>
    ELSE LET a == analyze_patterns(body, fail)
         IN IF a.raised THEN <<>>
            ELSE SinkEvents(tag, a, fail)
                 \o <<Ev("delete_message", tag, IF deleteRaises THEN "raise" ELSE "ok")>>

\* what the handler returned to its caller for this message
Handled(tag, body, fail, ackRaises) ==
    [tag |-> tag, body |-> body, sink |-> fail, ackRaises |-> ackRaises,
     raised |-> json_loads(body) = "ok" /\ analyze_patterns(body, fail).raised,
     result |-> IF json_loads(body) = "ok"
                THEN analyze_patterns(body, fail).result ELSE NoResult]

\* ---------------------------------------------------------------- state
VARIABLES
    QUEUE_TYPE,     \* the configured transport
    sqsReady,       \* sqs_client is set and SQS_QUEUE_URL is non-empty
    pc,             \* where the process is
    retries,        \* _connect_to_rabbitmq: remaining retry budget
    attemptLog,     \* _connect_to_rabbitmq: outcome of every attempt so far
    connection,     \* "none", "open" or "closed"
    exc,            \* exception that left the consumer, "none" if none
    trace,          \* calls made on channel / sink / SQS client, in order
    handled,        \* one record per message handed to a handler
    batch,          \* SQS: messages of the current response not yet processed
    polls           \* SQS: receive_message calls made

vars == <<QUEUE_TYPE, sqsReady, pc, retries, attemptLog, connection, exc,
          trace, handled, batch, polls>>

RETRIES_OffByOne == 5 + 1
RETRIES == 5
QueueTypes == {"rabbitmq", "sqs", "kafka"}
AttemptOutcomes == {"raise", "open", "notopen"}

Init ==
    /\ QUEUE_TYPE \in QueueTypes
    /\ sqsReady \in (IF QUEUE_TYPE = "sqs" THEN BOOLEAN ELSE {FALSE})
    /\ pc = "main"
    /\ retries = RETRIES
    /\ attemptLog = <<>>
    /\ connection = "none"
    /\ exc = "none"
    /\ trace = <<>>
    /\ handled = <<>>
    /\ batch = <<>>
    /\ polls = 0

\* a dispatch whose last branch falls back to RabbitMQ
consume_messages_Fallback ==
    /\ pc = "main"
    /\ pc' = IF QUEUE_TYPE = "sqs" /\ sqsReady THEN "polling"
             ELSE IF QUEUE_TYPE = "sqs" THEN "done"
             ELSE "connecting"
    /\ UNCHANGED <<QUEUE_TYPE, sqsReady, retries, attemptLog, connection, exc,
                   trace, handled, batch, polls>>

\* consume_messages, up to the first blocking call of the chosen consumer
consume_messages ==
    /\ pc = "main"
    /\ pc' = IF QUEUE_TYPE = "rabbitmq" THEN "connecting"
             ELSE IF QUEUE_TYPE = "sqs" /\ sqsReady THEN "polling"
             ELSE "done"
    /\ UNCHANGED <<QUEUE_TYPE, sqsReady, retries, attemptLog, connection, exc,
                   trace, handled, batch, polls>>

\* one iteration of the while loop of _connect_to_rabbitmq; the raise after
\* the loop belongs to the iteration that used up the budget
ConnectAttempt(outcome) ==
    /\ pc = "connecting"
    /\ retries > 0
    /\ Len(attemptLog) < MaxAttempts
    /\ attemptLog' = Append(attemptLog, outcome)
    /\ retries' = IF outcome = "raise" THEN retries - 1 ELSE retries
    /\ connection' = IF outcome = "open" THEN "open" ELSE connection
    /\ pc' = IF outcome = "open" THEN "channel"
             ELSE IF retries' = 0 THEN "done"
             ELSE "connecting"
    /\ exc' = IF outcome # "open" /\ retries' = 0 THEN "ConnectionError" ELSE exc
    /\ UNCHANGED <<QUEUE_TYPE, sqsReady, trace, handled, batch, polls>>

\* the calls of _consume_rabbitmq between connecting and start_consuming
SetupSteps == <<"channel", "exchange_declare", "queue_declare", "queue_bind",
                "basic_consume", "consuming">>

NextSetup(step) ==
    SetupSteps[(CHOOSE j \in 1..Len(SetupSteps) : SetupSteps[j] = step) + 1]

\* one setup call: it returns, or it raises and the exception leaves
\* _consume_rabbitmq (these calls are outside the try/finally)
SetupStep(ok) ==
    /\ pc \in {"channel", "exchange_declare", "queue_declare", "queue_bind",
               "basic_consume"}
    /\ pc' = IF ok THEN NextSetup(pc) ELSE "done"
    /\ exc' = IF ok THEN exc ELSE "AMQPError"
    \* the locals of _connect_to_rabbitmq are gone once its result is used
    /\ retries' = RETRIES
    /\ attemptLog' = <<>>
    /\ UNCHANGED <<QUEUE_TYPE, sqsReady, connection, trace, handled, batch, polls>>

\* start_consuming dispatches one delivery to callback
Deliver(body, fail, ackRaises) ==
    /\ pc = "consuming"
    /\ Len(handled) < MaxDeliveries
    /\ LET tag == Len(handled) + 1
       IN /\ trace' = trace \o callback(tag, body, fail, ackRaises)
          /\ handled' = Append(handled, Handled(tag, body, fail, ackRaises))
    /\ UNCHANGED <<QUEUE_TYPE, sqsReady, pc, retries, attemptLog, connection,
                   exc, batch, polls>>

\* KeyboardInterrupt inside start_consuming: stop_consuming, then finally
Interrupt(stopRaises) ==
    /\ pc = "consuming"
    /\ trace' = trace \o <<Ev("stop_consuming", 0, IF stopRaises THEN "raise" ELSE "ok"),
                           Ev("close", 0, "ok")>>
    /\ connection' = "closed"
    /\ exc' = IF stopRaises THEN "AMQPError" ELSE exc
    /\ pc' = "done"
    /\ UNCHANGED <<QUEUE_TYPE, sqsReady, retries, attemptLog, handled, batch, polls>>

\* any other exception out of start_consuming: finally, then it propagates
ConsumeError ==
    /\ pc = "consuming"
    /\ trace' = Append(trace, Ev("close", 0, "ok"))
    /\ connection' = "closed"
    /\ exc' = "AMQPError"
    /\ pc' = "done"
    /\ UNCHANGED <<QUEUE_TYPE, sqsReady, retries, attemptLog, handled, batch, polls>>

\* a polling loop without the outer `except Exception`
SqsPollFails_Propagates ==
    /\ pc = "polling"
    /\ batch = <<>>
    /\ polls < MaxPolls
    /\ polls' = polls + 1
    /\ trace' = Append(trace, Ev("receive_message", 0, "raise"))
    /\ pc' = "done"
    /\ exc' = "BotoCoreError"
    /\ UNCHANGED <<QUEUE_TYPE, sqsReady, retries, attemptLog, connection,
                   handled, batch>>

\* receive_message raises: log, sleep 5 seconds, poll again
SqsPollFails ==
    /\ pc = "polling"
    /\ batch = <<>>
    /\ polls < MaxPolls
    /\ polls' = polls + 1
    /\ trace' = trace \o <<Ev("receive_message", 0, "raise"), Ev("sleep", 0, "5")>>
    /\ UNCHANGED <<QUEUE_TYPE, sqsReady, pc, retries, attemptLog, connection,
                   exc, handled, batch>>

Batches(n) == UNION {[1..k -> Bodies] : k \in 0..n}
Min(a, b) == IF a < b THEN a ELSE b

\* receive_message returns a response with 0..MaxBatch messages
SqsReceive(msgs) ==
    /\ pc = "polling"
    /\ batch = <<>>
    /\ polls < MaxPolls
    /\ polls' = polls + 1
    /\ trace' = Append(trace, Ev("receive_message", 0, "ok"))
    /\ batch' = msgs
    /\ UNCHANGED <<QUEUE_TYPE, sqsReady, pc, retries, attemptLog, connection,
                   exc, handled>>

\* one iteration of the for loop over the response
SqsProcess(fail, deleteRaises) ==
    /\ pc = "polling"
    /\ batch # <<>>
    /\ LET tag == Len(handled) + 1
           body == Head(batch)
       IN /\ fail \in SinkInputs(body)
          /\ deleteRaises \in AckInputs(body)
          /\ trace' = trace \o sqs_message(tag, body, fail, deleteRaises)
          /\ handled' = Append(handled, Handled(tag, body, fail, deleteRaises))
    /\ batch' = Tail(batch)
    /\ UNCHANGED <<QUEUE_TYPE, sqsReady, pc, retries, attemptLog, connection,
                   exc, polls>>

\* KeyboardInterrupt is not an Exception: it leaves the polling loop
SqsInterrupt ==
    /\ pc = "polling"
    /\ pc' = "done"
    /\ exc' = "KeyboardInterrupt"
    /\ UNCHANGED <<QUEUE_TYPE, sqsReady, retries, attemptLog, connection,
                   trace, handled, batch, polls>>

Next ==
    \/ consume_messages
    \/ \E outcome \in AttemptOutcomes : ConnectAttempt(outcome)
    \/ \E ok \in BOOLEAN : SetupStep(ok)
    \/ \E body \in Bodies : \E fail \in SinkInputs(body) :
          \E ackRaises \in AckInputs(body) : Deliver(body, fail, ackRaises)
    \/ \E stopRaises \in BOOLEAN : Interrupt(stopRaises)
    \/ ConsumeError
    \/ SqsPollFails
    \/ \E msgs \in Batches(Min(MaxBatch, MaxDeliveries - Len(handled))) : SqsReceive(msgs)
    \/ \E fail \in SinkFailures : \E deleteRaises \in BOOLEAN : SqsProcess(fail, deleteRaises)
    \/ SqsInterrupt

Spec == Init /\ [][Next]_vars

TypeOK ==
    /\ QUEUE_TYPE \in QueueTypes
    /\ sqsReady \in BOOLEAN
    /\ retries \in 0..RETRIES
    /\ connection \in {"none", "open", "closed"}
    /\ Len(handled) <= MaxDeliveries

\* ---------------------------------------------------------------- analysis alone
\* analyze_patterns applied to one decoded request, outside any consumer:
\* the request is drawn at Init and the only step is the call

CloseValues == {0 - 100, 0, 100}

\* every series of numeric closes up to MaxLen
GeneratedSeries ==
    UNION {[1..k -> {Obs(v) : v \in CloseValues}] : k \in 1..MaxLen}

\* series in which a close may be missing or not a number
MixedSeries ==
    UNION {[1..k -> {Obs(0), Obs(100), ObsMissing, ObsBad}] : k \in 1..MaxMixedLen}

\* series around the 2% threshold, and the worked examples
ExampleSeries ==
    { ObsSeq(<<1, 3, 1, 3, 1>>),
      ObsSeq(<<10, 12, 10, 15, 10, 13, 10>>),
      ObsSeq(<<0, 100, 0, 101, 0>>),
      ObsSeq(<<0, 100, 0, 102, 0>>),
      ObsSeq(<<0, 100, 0, 99, 0>>),
      ObsSeq(<<0, 100, 0, 98, 0>>),
      ObsSeq(<<200, 100, 200, 101, 200>>),
      ObsSeq(<<200, 100, 200, 102, 200>>),
      ObsSeq(<<1, 3, 3, 1>>),
      ObsSeq(<<3, 1, 1, 1, 3>>) }

Requests ==
    {Body("object", TRUE, TRUE, d) : d \in GeneratedSeries \cup MixedSeries}
    \cup {Body("object", FALSE, TRUE, d) : d \in ExampleSeries}
    \cup { Body("object", TRUE, FALSE, <<>>), Body("object", FALSE, FALSE, <<>>),
           Body("object", TRUE, TRUE, <<>>), Body("array", FALSE, FALSE, <<>>) }

InitAnalyze ==
    /\ QUEUE_TYPE = "rabbitmq"
    /\ sqsReady = FALSE
    /\ pc = "analyze"
    /\ retries = RETRIES
    /\ attemptLog = <<>>
    /\ connection = "none"
    /\ exc = "none"
    /\ trace = <<>>
    /\ handled = <<>>
    /\ batch \in {<<r>> : r \in Requests}
    /\ polls = 0

\* the call analyze_patterns(request), send_to_output included
AnalyzeRequest(fail) ==
    /\ pc = "analyze"
    /\ fail \in SinkInputs(Head(batch))
    /\ LET a == analyze_patterns(Head(batch), fail)
       IN /\ trace' = SinkEvents(1, a, fail)
          /\ handled' = <<Handled(1, Head(batch), fail, FALSE)>>
    /\ batch' = <<>>
    /\ pc' = "analyzed"
    /\ UNCHANGED <<QUEUE_TYPE, sqsReady, retries, attemptLog, connection, exc, polls>>

NextAnalyze == \E fail \in SinkFailures : AnalyzeRequest(fail)

SpecAnalyze == InitAnalyze /\ [][NextAnalyze]_vars

\* ---------------------------------------------------------------- helpers
HasOp(op, t) == \E i \in DOMAIN trace : trace[i].op = op /\ trace[i].tag = t
HasEv(op, t, arg) == \E i \in DOMAIN trace : trace[i] = Ev(op, t, arg)

AckOps == {"basic_ack", "basic_nack", "delete_message"}
\* the acknowledgement calls made for delivery t, in order
Decision(t) == SelectSeq(trace, LAMBDA e : e.tag = t /\ e.op \in AckOps)

Raises(log) == Cardinality({i \in DOMAIN log : log[i] = "raise"})

DataMissing(body) == body.kind = "object" /\ (~body.hasData \/ body.data = <<>>)
Undecodable(body) == json_loads(body) # "ok" \/ body.kind # "object"

\* ---------------------------------------------------------------- claims

\* C1: RabbitMQ: a delivery whose body is a JSON object with `data` empty or
\* absent is answered with basic_nack(requeue=False) and never with basic_ack.
C1_MissingDataIsNacked ==
    QUEUE_TYPE = "rabbitmq" =>
        \A t \in DOMAIN handled :
            DataMissing(handled[t].body) =>
                /\ HasEv("basic_nack", t, "requeue=False")
                /\ ~HasOp("basic_ack", t)

\* C2: RabbitMQ: a delivery whose body cannot be decoded into a JSON object
\* (invalid JSON text, undecodable bytes, JSON that is not an object) is
\* answered with basic_nack(requeue=False) and never with requeue=True.
C2_PoisonIsDropped ==
    QUEUE_TYPE = "rabbitmq" =>
        \A t \in DOMAIN handled :
            Undecodable(handled[t].body) =>
                /\ HasEv("basic_nack", t, "requeue=False")
                /\ ~HasEv("basic_nack", t, "requeue=True")

\* C3: analyze_patterns never raises to its caller, whatever decoded JSON
\* value it is given.
C3_AnalyzeNeverRaises ==
    \A t \in DOMAIN handled : ~handled[t].raised

\* C4: _connect_to_rabbitmq never makes a 6th attempt: it has returned an
\* open connection or raised ConnectionError by the 5th attempt.
C4_AtMostFiveAttempts ==
    /\ Len(attemptLog) <= 5
    /\ Len(attemptLog) = 5 => pc # "connecting"

\* C5 as stated: fewer than 5 failures followed by a success return the
\* connection, and ConnectionError is raised on the 6th consecutive failure.
C5_RaisedOnSixthFailure ==
    /\ (pc = "channel" /\ attemptLog # <<>>) =>
           (Last(attemptLog, 0) = "open" /\ Raises(attemptLog) < 5)
    /\ exc = "ConnectionError" => Raises(attemptLog) = 6

\* C5 amended: an attempt that opens the connection after fewer than 5
\* raising attempts returns it; ConnectionError is raised by the 5th raising
\* attempt, so a 6th raising attempt never happens.
C5_RaisedOnFifthFailure ==
    /\ Raises(attemptLog) <= 5
    /\ \A i \in DOMAIN attemptLog :
           attemptLog[i] = "open" => (i = Len(attemptLog) /\ pc = "channel")
    /\ (pc = "channel" /\ attemptLog # <<>>) =>
           (Last(attemptLog, 0) = "open" /\ Raises(attemptLog) < 5
            /\ connection = "open" /\ exc = "none")
    /\ pc = "connecting" => Raises(attemptLog) < 5
    /\ exc = "ConnectionError" <=>
           (Raises(attemptLog) = 5 /\ Last(attemptLog, 0) = "raise" /\ pc = "done")

C5_Witness ==
    /\ exc = "ConnectionError"
    /\ attemptLog = <<"raise", "raise", "raise", "raise", "raise">>

\* C6: SQS: a message whose processing failed (undecodable body, or a
\* validation failure that yields a failure result) is never deleted.
C6_FailedIsNotDeleted ==
    QUEUE_TYPE = "sqs" =>
        \A t \in DOMAIN handled :
            (\/ json_loads(handled[t].body) # "ok"
             \/ handled[t].raised
             \/ handled[t].result.shape = "failure") => ~HasOp("delete_message", t)

\* C7: every basic_ack / delete_message is preceded by a send_to_output call
\* for the same message.
C7_DispatchBeforeAck ==
    \A i \in DOMAIN trace :
        trace[i].op \in {"basic_ack", "delete_message"} =>
            \E j \in 1..(i - 1) :
                trace[j].op = "send_to_output" /\ trace[j].tag = trace[i].tag

\* C8: whenever the sink is called, log, print and publish are all
\* attempted, whichever of its steps fails.
C8_SideEffectsIndependent ==
    \A t \in DOMAIN handled :
        HasOp("send_to_output", t) =>
            \A step \in {"log", "print", "publish"} : HasOp(step, t)

\* C9: the sink outcome never changes what the handler does: two messages
\* with the same body (and the same outcome of the ack/delete call) get the
\* same acknowledgement calls and the same returned result, however the
\* sink fared, and no sink failure surfaces in a result.
C9_SinkNeverAffectsOutcome ==
    /\ \A t \in DOMAIN handled : handled[t].result.error # "send_to_output"
    /\ \A t1, t2 \in DOMAIN handled :
           (/\ handled[t1].body = handled[t2].body
            /\ handled[t1].ackRaises = handled[t2].ackRaises) =>
               /\ handled[t1].result = handled[t2].result
               /\ handled[t1].raised = handled[t2].raised
               /\ [j \in DOMAIN Decision(t1) |-> Decision(t1)[j].op] =
                  [j \in DOMAIN Decision(t2) |-> Decision(t2)[j].op]
               /\ [j \in DOMAIN Decision(t1) |-> Decision(t1)[j].arg] =
                  [j \in DOMAIN Decision(t2) |-> Decision(t2)[j].arg]

C9_Witness ==
    \E t1, t2 \in DOMAIN handled :
        /\ handled[t1].body = handled[t2].body
        /\ handled[t1].sink = "none"
        /\ handled[t2].sink = "render"
        /\ handled[t2].result.shape = "success"
        /\ HasEv("render", t2, "raise")
        /\ Decision(t2) # <<>>

\* C10: RabbitMQ: no exit of _consume_rabbitmq leaves the connection open.
C10_ConnectionClosedOnExit ==
    (QUEUE_TYPE = "rabbitmq" /\ pc = "done") => connection # "open"

\* ---------------------------------------------------------------- analysis claims
Range(q) == {q[j] : j \in DOMAIN q}
Increasing(q) == \A j \in 1..(Len(q) - 1) : q[j] < q[j + 1]
AllNumeric(data) == \A j \in DOMAIN data : data[j].ck = "num"
Analysed(t) == handled[t].result.shape = "success"
\* close value at 0-based index i of the request of t
CloseAt(t, i) == handled[t].body.data[i + 1].close
LastIdx(t) == Len(handled[t].body.data) - 1

\* C11: a request whose `data` is empty or absent, or one of whose elements has
\* no `close` coercible to a number, is rejected: analyze_patterns returns the
\* failure shape with `error` set and no peaks, valleys or patterns.
C11_InvalidRequestRejected ==
    \A t \in DOMAIN handled :
        (/\ handled[t].body.kind = "object"
         /\ \/ DataMissing(handled[t].body)
            \/ ~AllNumeric(handled[t].body.data)) =>
            /\ ~handled[t].raised
            /\ handled[t].result.shape = "failure"
            /\ handled[t].result.error # ""
            /\ handled[t].result.peaks = <<>>
            /\ handled[t].result.valleys = <<>>
            /\ handled[t].result.patterns = <<>>

\* the strict local-extremum rule of the data model
StrictPeaks(t) ==
    {i \in 1..(LastIdx(t) - 1) :
        CloseAt(t, i) > CloseAt(t, i - 1) /\ CloseAt(t, i) > CloseAt(t, i + 1)}
StrictValleys(t) ==
    {i \in 1..(LastIdx(t) - 1) :
        CloseAt(t, i) < CloseAt(t, i - 1) /\ CloseAt(t, i) < CloseAt(t, i + 1)}

FlatExtrema(t, sign) ==
    {(l + r) \div 2 : <<l, r>> \in
        {lr \in (1..(LastIdx(t) - 1)) \X (1..(LastIdx(t) - 1)) :
            /\ lr[1] <= lr[2]
            /\ \A i \in lr[1]..lr[2] : CloseAt(t, i) = CloseAt(t, lr[1])
            /\ sign * CloseAt(t, lr[1] - 1) < sign * CloseAt(t, lr[1])
            /\ sign * CloseAt(t, lr[2] + 1) < sign * CloseAt(t, lr[2])}}

WithinTwoPercent(a, r) == r # 0 /\ 50 * Abs(a - r) < Abs(r)

\* C13: "Double Top" is emitted iff there are at least 2 peaks and the last
\* peak a and the second-to-last peak r satisfy |a - r| / |r| < 0.02;
\* "Double Bottom" likewise over the last two valleys; negative values included.
C13_RelativeToAbsReference ==
    \A t \in DOMAIN handled :
        Analysed(t) =>
            LET pk == handled[t].result.peaks
                vl == handled[t].result.valleys
            IN /\ "Double Top" \in Range(handled[t].result.patterns) <=>
                     (Len(pk) >= 2 /\ WithinTwoPercent(CloseAt(t, Last(pk, 0)),
                                                       CloseAt(t, Last(pk, 1))))
               /\ "Double Bottom" \in Range(handled[t].result.patterns) <=>
                     (Len(vl) >= 2 /\ WithinTwoPercent(CloseAt(t, Last(vl, 0)),
                                                       CloseAt(t, Last(vl, 1))))

C15_HeadAndShouldersRule ==
    \A t \in DOMAIN handled :
        Analysed(t) =>
            LET pk == handled[t].result.peaks
                vl == handled[t].result.valleys
            IN /\ "Head and Shoulders" \in Range(handled[t].result.patterns) <=>
                     /\ Len(pk) >= 3
                     /\ Len(vl) >= 2
                     /\ CloseAt(t, Last(pk, 1)) > CloseAt(t, Last(pk, 2))
                     /\ CloseAt(t, Last(pk, 1)) > CloseAt(t, Last(pk, 0))
                     /\ CloseAt(t, Last(vl, 1)) < CloseAt(t, Last(pk, 1))
                     /\ CloseAt(t, Last(vl, 0)) < CloseAt(t, Last(pk, 1))
               /\ handled[t].body.data = ObsSeq(<<10, 12, 10, 15, 10, 13, 10>>) =>
                     /\ pk = <<1, 3, 5>>
                     /\ vl = <<2, 4>>
                     /\ "Head and Shoulders" \in Range(handled[t].result.patterns)

C15_Witness ==
    \E t \in DOMAIN handled :
        /\ handled[t].body.data = ObsSeq(<<10, 12, 10, 15, 10, 13, 10>>)
        /\ handled[t].result.peaks = <<1, 3, 5>>
        /\ "Head and Shoulders" \in Range(handled[t].result.patterns)

Labels == <<"Double Top", "Double Bottom", "Head and Shoulders">>
\* the non-empty sub-sequences of Labels, in order
LabelLists ==
    {q \in UNION {[1..k -> Range(Labels)] : k \in 1..3} :
        \A i, j \in DOMAIN q :
            i < j => \E a, b \in DOMAIN Labels : a < b /\ Labels[a] = q[i] /\ Labels[b] = q[j]}

\* C16: every returned value carries the request's symbol ("UNKNOWN" when
\* absent) and analysis_type "chart_patterns", and is either a success
\* payload or an error message, never both; `patterns` of a success is
\* either the sentinel alone or the fired labels, without duplicates, in the
\* order Double Top, Double Bottom, Head and Shoulders.
C16_ResultShape ==
    \A t \in DOMAIN handled :
        (json_loads(handled[t].body) = "ok" /\ ~handled[t].raised) =>
            LET r == handled[t].result
            IN /\ r.symbol = (IF handled[t].body.hasSymbol THEN "AAPL" ELSE "UNKNOWN")
               /\ r.analysis_type = "chart_patterns"
               /\ r.shape \in {"success", "failure"}
               /\ r.shape = "failure" =>
                     (r.error # "" /\ r.patterns = <<>> /\ r.peaks = <<>> /\ r.valleys = <<>>)
               /\ r.shape = "success" =>
                     /\ r.error = ""
                     /\ r.patterns # <<>>
                     /\ r.patterns = <<"No recognizable patterns">> \/ r.patterns \in LabelLists

C16_Witness ==
    \E t \in DOMAIN handled :
        /\ Analysed(t)
        /\ ~handled[t].body.hasSymbol
        /\ handled[t].result.symbol = "UNKNOWN"
        /\ Len(handled[t].result.patterns) = 2

\* ---------------------------------------------------------------- consumer claims
ChannelOps == {"basic_ack", "basic_nack", "stop_consuming", "close"}
SqsOps == {"receive_message", "delete_message", "sleep"}
NothingConsumed ==
    /\ pc \in {"main", "done"}
    /\ connection = "none"
    /\ attemptLog = <<>>
    /\ trace = <<>>
    /\ handled = <<>>
    /\ polls = 0
    /\ exc = "none"

\* C17: exactly one adapter runs, chosen by QUEUE_TYPE: an unrecognized
\* QUEUE_TYPE opens no connection and receives nothing; "sqs" without client
\* or queue URL returns without receive_message and without raising; the SQS
\* consumer never touches RabbitMQ and the RabbitMQ consumer never polls SQS.
C17_AdapterSelection ==
    /\ QUEUE_TYPE \notin {"rabbitmq", "sqs"} => NothingConsumed
    /\ (QUEUE_TYPE = "sqs" /\ ~sqsReady) => NothingConsumed
    /\ QUEUE_TYPE = "sqs" =>
          /\ pc \in {"main", "polling", "done"}
          /\ connection = "none"
          /\ attemptLog = <<>>
          /\ \A i \in DOMAIN trace : trace[i].op \notin ChannelOps
    /\ QUEUE_TYPE = "rabbitmq" =>
          /\ pc # "polling"
          /\ polls = 0
          /\ batch = <<>>
          /\ \A i \in DOMAIN trace : trace[i].op \notin SqsOps

C17_Witness ==
    /\ QUEUE_TYPE = "kafka"
    /\ pc = "done"

\* C18: once polling has started only an interrupt ends the loop: a failed
\* receive_message is followed by the 5 second sleep and the loop goes on,
\* and every message of a batch is processed, in received order, whatever
\* happened to the messages before it.
C18_SqsLoopNeverStops ==
    [][pc = "polling" =>
          /\ pc' = "polling" \/ (pc' = "done" /\ exc' = "KeyboardInterrupt")
          /\ (batch # <<>> /\ pc' = "polling") =>
                /\ batch' = Tail(batch)
                /\ Len(handled') = Len(handled) + 1
                /\ handled'[Len(handled')].body = Head(batch)
                /\ SubSeq(handled', 1, Len(handled)) = handled
          /\ (batch = <<>> /\ polls' # polls /\ batch' = <<>>
                /\ trace'[Len(trace) + 1].arg = "raise") =>
                /\ pc' = "polling"
                /\ trace' = trace \o <<Ev("receive_message", 0, "raise"),
                                       Ev("sleep", 0, "5")>>]_vars

C18_Witness ==
    /\ QUEUE_TYPE = "sqs"
    /\ pc = "polling"
    /\ \E i \in 1..(Len(trace) - 1) :
          trace[i] = Ev("sleep", 0, "5") /\ trace[i + 1] = Ev("receive_message", 0, "ok")
    /\ Len(handled) = 2
    /\ json_loads(handled[1].body) # "ok"
    /\ HasEv("delete_message", 2, "ok")

\* C19: RabbitMQ deliveries are handled one at a time: every call made for
\* delivery n comes before every call made for delivery n+1, each delivery's
\* processing is finished before its acknowledgement, and each delivery is
\* acknowledged (ack or nack) before the next one starts.
C19_OneAtATimeInOrder ==
    QUEUE_TYPE = "rabbitmq" =>
        /\ \A i, j \in DOMAIN trace :
              (i < j /\ trace[i].tag > 0 /\ trace[j].tag > 0) =>
                  trace[i].tag <= trace[j].tag
        /\ \A t \in DOMAIN handled : Decision(t) # <<>>
        /\ \A i, j \in DOMAIN trace :
              (/\ trace[i].tag = trace[j].tag
               /\ trace[i].tag > 0
               /\ trace[i].op \in AckOps
               /\ trace[j].op \notin AckOps) => j < i

C19_Witness ==
    /\ QUEUE_TYPE = "rabbitmq"
    /\ Len(handled) = 2
    /\ HasEv("basic_nack", 1, "requeue=False")
    /\ HasOp("send_to_output", 2)
    /\ HasEv("basic_ack", 2, "ok")

\* C20 as stated: every RabbitMQ delivery gets exactly one acknowledgement
\* call, also when basic_ack raises.
C20_ExactlyOneAckCall ==
    QUEUE_TYPE = "rabbitmq" =>
        \A t \in DOMAIN handled : Len(Decision(t)) = 1

\* C20 amended: every RabbitMQ delivery gets exactly one acknowledgement
\* call (one basic_ack or one basic_nack) unless basic_ack raises; then the
\* failed basic_ack is followed by one basic_nack(requeue=True), two calls.
C20_OneAckCallUnlessAckRaises ==
    QUEUE_TYPE = "rabbitmq" =>
        \A t \in DOMAIN handled :
            /\ ~handled[t].ackRaises =>
                  /\ Len(Decision(t)) = 1
                  /\ Decision(t)[1].arg # "raise"
            /\ handled[t].ackRaises =>
                  Decision(t) = <<Ev("basic_ack", t, "raise"),
                                  Ev("basic_nack", t, "requeue=True")>>

C20_Witness ==
    /\ QUEUE_TYPE = "rabbitmq"
    /\ \E t \in DOMAIN handled :
          /\ handled[t].ackRaises
          /\ Len(Decision(t)) = 2
====
